---- MODULE Spec2Model ----
(***************************************************************************)
(* Model of the condition engine of go-spring's spring-core package:       *)
(* the Condition implementations, the conditionNode chain and the          *)
(* Conditional builder of spring-condition.go.                             *)
(*                                                                         *)
(* A Conditional owns a heap of conditionNode objects.  The heap is the    *)
(* sequence `nodes`; a *conditionNode is an index into it and NilPtr is    *)
(* the nil pointer.  A Go panic(errors.New(msg)) is an evaluation whose    *)
(* err field is msg; an evaluation that returns has err = NoErr and its    *)
(* boolean in val.                                                         *)
(***************************************************************************)
EXTENDS Integers, Sequences, FiniteSets, TLC

VARIABLES nodes, head, curr, attached, last, ret

vars == <<nodes, head, curr, attached, last, ret>>

\* Largest number of conditionNode objects one Conditional allocates.
MaxNodes == 3

----------------------------------------------------------------------------
\* ConditionOp values.

ConditionOr == 1

ConditionAnd == 2

ConditionNone == 3

\* The zero value of ConditionOp, carried by a node made by newConditionNode.
ZeroOp == 0

----------------------------------------------------------------------------
\* Panic messages.

NoErr == "<returned>"

ErrUnimplemented == "UNIMPLEMENTED_METHOD"

ErrNoCondition == "no condition"

ErrOpMode == "error condition op mode"

ErrLastOp == "last op need a cond triggered"

\* The error types.Eval returns, raised by panic(err).
ErrEval == "types.Eval: invalid expression"

\* The runtime panic of == on two interface values of one uncomparable type.
ErrUncomparable == "runtime error: comparing uncomparable type"

----------------------------------------------------------------------------
\* Values of Go's interface{}: a dynamic type t and the value under it (n
\* for int and bool, s for string).  A string is the sequence of its
\* lexemes, so that "$>=4" is <<"$", ">=", "4">>.

NilValue == [t |-> "nil", n |-> 0, s |-> <<>>]

IntValue(n) == [t |-> "int", n |-> n, s |-> <<>>]

BoolValue(b) == [t |-> "bool", n |-> IF b THEN 1 ELSE 0, s |-> <<>>]

StringValue(s) == [t |-> "string", n |-> 0, s |-> s]

\* A []interface{} value, of n elements.
SliceValue(n) == [t |-> "[]interface {}", n |-> n, s |-> <<>>]

\* The dynamic types on which Go's == panics.
Uncomparable == {"[]interface {}"}

----------------------------------------------------------------------------
\* Conditions.  Every Condition value is a record with the same fields:
\* kind (the implementing type), name (property name, a sequence of dotted
\* segments), op (group operator), cond (wrapped / member conditions), val
\* (havingValue) and str (bean selector or profile).

Cond(kind, name, op, cond, val, str) ==
    [kind |-> kind, name |-> name, op |-> op, cond |-> cond, val |-> val, str |-> str]

NilCond == Cond("nil", <<>>, ZeroOp, <<>>, NilValue, "")

NewPropertyCondition(name) ==
    Cond("propertyCondition", name, ZeroOp, <<>>, NilValue, "")

NewMissingPropertyCondition(name) ==
    Cond("missingPropertyCondition", name, ZeroOp, <<>>, NilValue, "")

NewNotCondition(cond) ==
    Cond("notCondition", <<>>, ZeroOp, <<cond>>, NilValue, "")

NewExpressionCondition ==
    Cond("expressionCondition", <<>>, ZeroOp, <<>>, NilValue, "")

NewConditions(op, cond) ==
    Cond("conditions", <<>>, op, cond, NilValue, "")

NewPropertyValueCondition(name, havingValue) ==
    Cond("propertyValueCondition", name, ZeroOp, <<>>, havingValue, "")

NewBeanCondition(selector) ==
    Cond("beanCondition", <<>>, ZeroOp, <<>>, NilValue, selector)

NewMissingBeanCondition(selector) ==
    Cond("missingBeanCondition", <<>>, ZeroOp, <<>>, NilValue, selector)

NewProfileCondition(profile) ==
    Cond("profileCondition", <<>>, ZeroOp, <<>>, NilValue, profile)

----------------------------------------------------------------------------
\* The SpringContext: the property keys it holds (props), each a sequence
\* of dotted segments, the value of each (value), the selectors of the
\* beans it can find (beans) and its profile.

PropA == <<"a">>

PropB == <<"b">>

Keys == {<<"a", "x">>, <<"b">>}

\* The value of the properties whose value no condition reads.
SetValue == StringValue(<<"1">>)

Context(props, beans, profile) ==
    [props |-> props, value |-> [k \in props |-> SetValue],
     beans |-> beans, profile |-> profile]

Contexts == {Context(props, {}, "") : props \in SUBSET Keys}

NoCtx == Context({}, {}, "")

IsPrefix(p, k) == Len(p) <= Len(k) /\ SubSeq(k, 1, Len(p)) = p

\* ctx.GetPrefixProperties(name): the keys of the context under the prefix.
GetPrefixProperties(ctx, name) == {k \in ctx.props : IsPrefix(name, k)}

\* ctx.GetDefaultProperty(name, def): the value of the property and whether
\* the context holds it.
GetDefaultProperty(ctx, name, def) ==
    IF name \in ctx.props THEN [val |-> ctx.value[name], ok |-> TRUE]
    ELSE [val |-> def, ok |-> FALSE]

\* ctx.FindBean(selector): whether the context finds a bean.
FindBean(ctx, selector) == [ok |-> selector \in ctx.beans]

\* ctx.GetProfile().
GetProfile(ctx) == ctx.profile

----------------------------------------------------------------------------
\* Text: strings.Contains, strings.Replace, cast.ToString and types.Eval on
\* strings given as sequences of lexemes.

Marker == "$"

Digits == <<"0", "1", "2", "3", "4", "5", "6", "7", "8", "9">>

RelOps == {"<", "<=", ">", ">=", "==", "!="}

\* strings.Contains(s, "$").
Contains(s, m) == \E i \in 1..Len(s) : s[i] = m

RECURSIVE ReplaceAll(_, _, _)
\* strings.Replace(s, old, new, -1).
ReplaceAll(s, old, new) ==
    IF s = <<>> THEN <<>>
    ELSE (IF Head(s) = old THEN new ELSE <<Head(s)>>) \o ReplaceAll(Tail(s), old, new)

\* strings.Replace(s, old, new, 1).
ReplaceFirst(s, old, new) ==
    IF ~Contains(s, old) THEN s
    ELSE LET i == CHOOSE j \in 1..Len(s) :
                      s[j] = old /\ \A k \in 1..(j - 1) : s[k] # old
         IN SubSeq(s, 1, i - 1) \o new \o SubSeq(s, i + 1, Len(s))

RECURSIVE Decimal(_)
\* The decimal digits of a natural number.
Decimal(n) == IF n < 10 THEN <<Digits[n + 1]>> ELSE Decimal(n \div 10) \o <<Digits[(n % 10) + 1]>>

\* cast.CastToString(val); a value it cannot convert gives "".
CastToString(val) ==
    CASE val.t = "int" -> Decimal(val.n)
      [] val.t = "bool" -> IF val.n = 1 THEN <<"true">> ELSE <<"false">>
      [] val.t = "string" -> val.s
      [] OTHER -> <<>>

IsDigit(x) == \E d \in 1..10 : Digits[d] = x

IsNumber(s) == s # <<>> /\ \A i \in 1..Len(s) : IsDigit(s[i])

DigitValue(x) == (CHOOSE d \in 1..10 : Digits[d] = x) - 1

RECURSIVE Number(_)
Number(s) == IF s = <<>> THEN 0 ELSE 10 * Number(SubSeq(s, 1, Len(s) - 1)) + DigitValue(s[Len(s)])

IsBool(s) == s = <<"true">> \/ s = <<"false">>

Compare(op, x, y) ==
    CASE op = "<" -> x < y
      [] op = "<=" -> x <= y
      [] op = ">" -> x > y
      [] op = ">=" -> x >= y
      [] op = "==" -> x = y
      [] op = "!=" -> x # y

Render(b) == IF b THEN <<"true">> ELSE <<"false">>

\* types.Eval on a constant expression: a number, a boolean, or one
\* comparison of two numbers or (== and != only) of two booleans.  ok is
\* err == nil and text is ret.Value.String().
Eval(expr) ==
    LET ops == {i \in 1..Len(expr) : expr[i] \in RelOps} IN
    IF ops = {} THEN
        IF IsNumber(expr) \/ IsBool(expr) THEN [ok |-> TRUE, text |-> expr]
        ELSE [ok |-> FALSE, text |-> <<>>]
    ELSE IF Cardinality(ops) # 1 THEN [ok |-> FALSE, text |-> <<>>]
    ELSE LET i == CHOOSE j \in ops : TRUE
             l == SubSeq(expr, 1, i - 1)
             r == SubSeq(expr, i + 1, Len(expr))
         IN IF IsNumber(l) /\ IsNumber(r)
            THEN [ok |-> TRUE, text |-> Render(Compare(expr[i], Number(l), Number(r)))]
            ELSE IF IsBool(l) /\ IsBool(r) /\ expr[i] \in {"==", "!="}
            THEN [ok |-> TRUE, text |-> Render(Compare(expr[i], l, r))]
            ELSE [ok |-> FALSE, text |-> <<>>]

----------------------------------------------------------------------------
\* Evaluation of a Condition.  The result records the outcome (err, val),
\* the conditions whose Matches was entered, in call order (trace), and the
\* context queries made (queries).

Returns(v, tr, q) == [err |-> NoErr, val |-> v, trace |-> tr, queries |-> q]

Panics(e, tr, q) == [err |-> e, val |-> FALSE, trace |-> tr, queries |-> q]

RECURSIVE CondMatches(_, _)
RECURSIVE GroupLoop(_, _, _, _, _, _)

\* The three loops of conditions.Matches: members are evaluated in order;
\* the first member whose result is stopOn ends the loop with stopRet, and
\* the loop falls through to endRet.  A panicking member ends the call.
GroupLoop(cond, i, ctx, stopOn, stopRet, endRet) ==
    IF i > Len(cond) THEN Returns(endRet, <<>>, <<>>)
    ELSE LET r == CondMatches(cond[i], ctx) IN
         IF r.err # NoErr THEN r
         ELSE IF r.val = stopOn THEN Returns(stopRet, r.trace, r.queries)
         ELSE LET rest == GroupLoop(cond, i + 1, ctx, stopOn, stopRet, endRet) IN
              [rest EXCEPT !.trace = r.trace \o @, !.queries = r.queries \o @]

propertyConditionMatches(c, ctx) ==
    Returns(Cardinality(GetPrefixProperties(ctx, c.name)) > 0,
            <<c>>, << <<"GetPrefixProperties", c.name>> >>)

missingPropertyConditionMatches(c, ctx) ==
    Returns(Cardinality(GetPrefixProperties(ctx, c.name)) = 0,
            <<c>>, << <<"GetPrefixProperties", c.name>> >>)

\* propertyValueCondition.Matches replacing the first marker only.
propertyValueConditionReplaceOne(c, ctx) ==
    LET p == GetDefaultProperty(ctx, c.name, StringValue(<<>>))
        q == << <<"GetDefaultProperty", c.name>> >>
    IN IF ~p.ok THEN Returns(FALSE, <<c>>, q)
       ELSE IF c.val.t # "string"
            THEN IF p.val.t = c.val.t /\ p.val.t \in Uncomparable
                 THEN Panics(ErrUncomparable, <<c>>, q)
                 ELSE Returns(p.val = c.val, <<c>>, q)
       ELSE IF ~Contains(c.val.s, Marker) THEN Returns(p.val = c.val, <<c>>, q)
       ELSE LET e == Eval(ReplaceFirst(c.val.s, Marker, CastToString(p.val))) IN
            IF e.ok THEN Returns(e.text = <<"true">>, <<c>>, q)
            ELSE Panics(ErrEval, <<c>>, q)

\* propertyValueCondition.Matches.
propertyValueConditionMatches(c, ctx) ==
    LET p == GetDefaultProperty(ctx, c.name, StringValue(<<>>))
        q == << <<"GetDefaultProperty", c.name>> >>
    IN IF ~p.ok THEN Returns(FALSE, <<c>>, q)
       ELSE IF c.val.t # "string"
            THEN IF p.val.t = c.val.t /\ p.val.t \in Uncomparable
                 THEN Panics(ErrUncomparable, <<c>>, q)
                 ELSE Returns(p.val = c.val, <<c>>, q)
       ELSE IF ~Contains(c.val.s, Marker) THEN Returns(p.val = c.val, <<c>>, q)
       ELSE LET e == Eval(ReplaceAll(c.val.s, Marker, CastToString(p.val))) IN
            IF e.ok THEN Returns(e.text = <<"true">>, <<c>>, q)
            ELSE Panics(ErrEval, <<c>>, q)

beanConditionMatches(c, ctx) ==
    Returns(FindBean(ctx, c.str).ok, <<c>>, << <<"FindBean", <<c.str>> >> >>)

\* missingBeanCondition.Matches returning ok.
missingBeanConditionOk(c, ctx) ==
    Returns(FindBean(ctx, c.str).ok, <<c>>, << <<"FindBean", <<c.str>> >> >>)

missingBeanConditionMatches(c, ctx) ==
    Returns(~FindBean(ctx, c.str).ok, <<c>>, << <<"FindBean", <<c.str>> >> >>)

\* profileCondition.Matches without the test for the empty profile.
profileConditionNoWildcard(c, ctx) ==
    IF c.str # GetProfile(ctx)
    THEN Returns(FALSE, <<c>>, << <<"GetProfile", <<>> >> >>)
    ELSE Returns(TRUE, <<c>>, << <<"GetProfile", <<>> >> >>)

profileConditionMatches(c, ctx) ==
    IF c.str # "" /\ c.str # GetProfile(ctx)
    THEN Returns(FALSE, <<c>>, << <<"GetProfile", <<>> >> >>)
    ELSE Returns(TRUE, <<c>>, IF c.str # "" THEN << <<"GetProfile", <<>> >> >> ELSE <<>>)

expressionConditionFalse(c, ctx) == Returns(FALSE, <<c>>, <<>>)

expressionConditionMatches(c, ctx) == Panics(ErrUnimplemented, <<c>>, <<>>)

notConditionMatches(c, ctx) ==
    LET r == CondMatches(c.cond[1], ctx) IN
    IF r.err # NoErr THEN [r EXCEPT !.trace = <<c>> \o @]
    ELSE [r EXCEPT !.val = ~@, !.trace = <<c>> \o @]

\* conditions.Matches with ConditionNone running the loop of ConditionOr.
conditionsMatchesNoneAsOr(c, ctx) ==
    IF Len(c.cond) = 0 THEN Panics(ErrNoCondition, <<c>>, <<>>)
    ELSE LET r == CASE c.op = ConditionOr -> GroupLoop(c.cond, 1, ctx, TRUE, TRUE, FALSE)
                    [] c.op = ConditionAnd -> GroupLoop(c.cond, 1, ctx, FALSE, FALSE, TRUE)
                    [] c.op = ConditionNone -> GroupLoop(c.cond, 1, ctx, TRUE, TRUE, FALSE)
                    [] OTHER -> Panics(ErrOpMode, <<>>, <<>>)
         IN [r EXCEPT !.trace = <<c>> \o @]

\* conditions.Matches without the length test before the switch.
conditionsMatchesNoLenTest(c, ctx) ==
    LET r == CASE c.op = ConditionOr -> GroupLoop(c.cond, 1, ctx, TRUE, TRUE, FALSE)
               [] c.op = ConditionAnd -> GroupLoop(c.cond, 1, ctx, FALSE, FALSE, TRUE)
               [] c.op = ConditionNone -> GroupLoop(c.cond, 1, ctx, TRUE, FALSE, TRUE)
               [] OTHER -> Panics(ErrOpMode, <<>>, <<>>)
    IN [r EXCEPT !.trace = <<c>> \o @]

conditionsMatches(c, ctx) ==
    IF Len(c.cond) = 0 THEN Panics(ErrNoCondition, <<c>>, <<>>)
    ELSE LET r == CASE c.op = ConditionOr -> GroupLoop(c.cond, 1, ctx, TRUE, TRUE, FALSE)
                    [] c.op = ConditionAnd -> GroupLoop(c.cond, 1, ctx, FALSE, FALSE, TRUE)
                    [] c.op = ConditionNone -> GroupLoop(c.cond, 1, ctx, TRUE, FALSE, TRUE)
                    [] OTHER -> Panics(ErrOpMode, <<>>, <<>>)
         IN [r EXCEPT !.trace = <<c>> \o @]

\* Condition.Matches, dispatched on the implementing type.
CondMatches(c, ctx) ==
    CASE c.kind = "propertyCondition" -> propertyConditionMatches(c, ctx)
      [] c.kind = "missingPropertyCondition" -> missingPropertyConditionMatches(c, ctx)
      [] c.kind = "notCondition" -> notConditionMatches(c, ctx)
      [] c.kind = "expressionCondition" -> expressionConditionMatches(c, ctx)
      [] c.kind = "conditions" -> conditionsMatches(c, ctx)
      [] c.kind = "propertyValueCondition" -> propertyValueConditionMatches(c, ctx)
      [] c.kind = "beanCondition" -> beanConditionMatches(c, ctx)
      [] c.kind = "missingBeanCondition" -> missingBeanConditionMatches(c, ctx)
      [] c.kind = "profileCondition" -> profileConditionMatches(c, ctx)

----------------------------------------------------------------------------
\* conditionNode and its evaluation.

NilPtr == 0

newConditionNode == [cond |-> NilCond, op |-> ZeroOp, next |-> NilPtr]

\* The result of a node evaluation adds the nodes whose Matches was entered
\* (visited) and the nodes whose own condition was evaluated (evals).
NodeReturns(v, vis) ==
    [err |-> NoErr, val |-> v, trace |-> <<>>, queries |-> <<>>,
     visited |-> vis, evals |-> <<>>]

NodePanics(e, vis) ==
    [err |-> e, val |-> FALSE, trace |-> <<>>, queries |-> <<>>,
     visited |-> vis, evals |-> <<>>]

\* The outcome of node i once its own condition has produced r.
Own(r, i, out) ==
    [out EXCEPT !.trace = r.trace \o @, !.queries = r.queries \o @,
                !.visited = <<i>> \o @, !.evals = <<i>> \o @]

RECURSIVE NodeMatches(_, _, _)

EmptyNodeFalse(i) == NodeReturns(FALSE, <<i>>)

\* A node with no condition matches.
EmptyNode(i) == NodeReturns(TRUE, <<i>>)

\* The guard testing the node's own condition instead of the next node's.
LastOpNeedsOwnCond(h, i) == h[i].next # NilPtr /\ h[i].cond = NilCond

\* The guard of the "last op need a cond" panic.
LastOpNeedsCond(h, i) == h[i].next # NilPtr /\ h[h[i].next].cond = NilCond

\* The switch with the two case labels exchanged.
NodeSwitchSwapped(h, i, ctx, r) ==
    IF h[i].next # NilPtr
    THEN CASE h[i].op = ConditionAnd ->
                IF r.val THEN Own(r, i, NodeReturns(r.val, <<>>))
                ELSE Own(r, i, NodeMatches(h, h[i].next, ctx))
           [] h[i].op = ConditionOr ->
                IF r.val THEN Own(r, i, NodeMatches(h, h[i].next, ctx))
                ELSE Own(r, i, NodeReturns(FALSE, <<>>))
           [] OTHER -> Own(r, i, NodePanics(ErrOpMode, <<>>))
    ELSE Own(r, i, NodeReturns(r.val, <<>>))

\* The switch with `and` evaluating the remainder before it looks at r.
NodeSwitchEagerAnd(h, i, ctx, r) ==
    IF h[i].next # NilPtr
    THEN CASE h[i].op = ConditionOr ->
                IF r.val THEN Own(r, i, NodeReturns(r.val, <<>>))
                ELSE Own(r, i, NodeMatches(h, h[i].next, ctx))
           [] h[i].op = ConditionAnd ->
                LET n == NodeMatches(h, h[i].next, ctx) IN
                Own(r, i, IF n.err # NoErr \/ r.val THEN n ELSE [n EXCEPT !.val = FALSE])
           [] OTHER -> Own(r, i, NodePanics(ErrOpMode, <<>>))
    ELSE Own(r, i, NodeReturns(r.val, <<>>))

\* The switch with `or` evaluating the remainder before it looks at r.
NodeSwitchEagerOr(h, i, ctx, r) ==
    IF h[i].next # NilPtr
    THEN CASE h[i].op = ConditionOr ->
                LET n == NodeMatches(h, h[i].next, ctx) IN
                Own(r, i, IF n.err # NoErr \/ ~r.val THEN n ELSE [n EXCEPT !.val = TRUE])
           [] h[i].op = ConditionAnd ->
                IF r.val THEN Own(r, i, NodeMatches(h, h[i].next, ctx))
                ELSE Own(r, i, NodeReturns(FALSE, <<>>))
           [] OTHER -> Own(r, i, NodePanics(ErrOpMode, <<>>))
    ELSE Own(r, i, NodeReturns(r.val, <<>>))

\* The statement that follows the evaluation of the node's own condition,
\* r being the value it returned.
NodeSwitch(h, i, ctx, r) ==
    IF h[i].next # NilPtr
    THEN CASE h[i].op = ConditionOr ->
                IF r.val THEN Own(r, i, NodeReturns(r.val, <<>>))
                ELSE Own(r, i, NodeMatches(h, h[i].next, ctx))
           [] h[i].op = ConditionAnd ->
                IF r.val THEN Own(r, i, NodeMatches(h, h[i].next, ctx))
                ELSE Own(r, i, NodeReturns(FALSE, <<>>))
           [] OTHER -> Own(r, i, NodePanics(ErrOpMode, <<>>))
    ELSE Own(r, i, NodeReturns(r.val, <<>>))

\* conditionNode.Matches on node i of heap h.
NodeMatches(h, i, ctx) ==
    IF h[i].cond = NilCond THEN EmptyNode(i)
    ELSE IF LastOpNeedsCond(h, i) THEN NodePanics(ErrLastOp, <<i>>)
    ELSE LET r == CondMatches(h[i].cond, ctx) IN
         IF r.err # NoErr THEN Own(r, i, NodePanics(r.err, <<>>))
         ELSE NodeSwitch(h, i, ctx, r)

----------------------------------------------------------------------------
\* Conditional: the heap it owns, its head and its cursor.

NewConditional == [nodes |-> <<newConditionNode>>, head |-> 1, curr |-> 1]

\* Empty as "the cursor holds no condition".
EmptyCursor(c) == c.nodes[c.curr].cond = NilCond

Empty(c) == c.head = c.curr

Matches(c, ctx) == NodeMatches(c.nodes, c.head, ctx)

\* Link leaving the cursor on the node it linked from.
LinkKeepsCursor(c, op) ==
    LET node == Len(c.nodes) + 1 IN
    [nodes |-> Append([c.nodes EXCEPT ![c.curr].op = op, ![c.curr].next = node],
                      newConditionNode),
     head |-> c.head,
     curr |-> c.curr]

\* The shared body of Or and And: allocate a node, set the cursor's op and
\* next, advance the cursor.
Link(c, op) ==
    LET node == Len(c.nodes) + 1 IN
    [nodes |-> Append([c.nodes EXCEPT ![c.curr].op = op, ![c.curr].next = node],
                      newConditionNode),
     head |-> c.head,
     curr |-> node]

\* Or storing ConditionNone on the cursor.
OrStoresNone(c) == Link(c, ConditionNone)

Or(c) == Link(c, ConditionOr)

And(c) == Link(c, ConditionAnd)

\* OnCondition linking with Or.
OnConditionOr(c, cond) ==
    LET c1 == IF c.nodes[c.curr].cond # NilCond THEN Or(c) ELSE c IN
    [c1 EXCEPT !.nodes[c1.curr].cond = cond]

OnCondition(c, cond) ==
    LET c1 == IF c.nodes[c.curr].cond # NilCond THEN And(c) ELSE c IN
    [c1 EXCEPT !.nodes[c1.curr].cond = cond]

OnConditionNot(c, cond) == OnCondition(c, NewNotCondition(cond))

OnProperty(c, name) == OnCondition(c, NewPropertyCondition(name))

OnMissingProperty(c, name) == OnCondition(c, NewMissingPropertyCondition(name))

OnExpression(c) == OnCondition(c, NewExpressionCondition)

OnPropertyValue(c, name, havingValue) ==
    OnCondition(c, NewPropertyValueCondition(name, havingValue))

OnBean(c, selector) == OnCondition(c, NewBeanCondition(selector))

OnMissingBean(c, selector) == OnCondition(c, NewMissingBeanCondition(selector))

OnProfile(c, profile) == OnCondition(c, NewProfileCondition(profile))

----------------------------------------------------------------------------
\* optionArg: its methods on the Conditional c it holds in arg.cond.

\* The dotted segments of a string without dots, as a property name.
NameOf(str) == <<str>>

ConditionOn(c, cond) == OnCondition(c, cond)

ConditionOnProperty(c, name) == OnProperty(c, name)

ConditionOnMissingProperty(c, name) == OnMissingProperty(c, name)

ConditionOnPropertyValue(c, name, havingValue) == OnPropertyValue(c, name, havingValue)

ConditionOnBean(c, selector) == OnBean(c, selector)

ConditionOnMissingBean(c, selector) == OnMissingBean(c, selector)

ConditionOnProfile(c, profile) == OnProperty(c, NameOf(profile))

----------------------------------------------------------------------------
\* The state machine: one Conditional, built and evaluated by its owner.

Self == [nodes |-> nodes, head |-> head, curr |-> curr]

\* The conditions handed to the builder.
Names == {PropA, PropB}

MissingNames == {PropA}

Conds ==
    {NewPropertyCondition(PropA),
     NewConditions(ConditionAnd, <<>>),
     NewConditions(ConditionOr, <<NewPropertyCondition(PropA), NewExpressionCondition>>)}

\* The conditions handed to OnConditionNot.
NotConds == {NewPropertyCondition(PropB), NewExpressionCondition}

NotRun ==
    [err |-> "<not run>", val |-> FALSE, trace |-> <<>>, queries |-> <<>>,
     visited |-> <<>>, evals |-> <<>>]

\* The last call made on the Conditional: its name, its condition or context
\* argument, and whether it allocated a node.
\* arg is the string argument of a call that takes one.
Call(op, cond, ctx, grew) ==
    [op |-> op, cond |-> cond, ctx |-> ctx, grew |-> grew, arg |-> ""]

Init ==
    /\ nodes = NewConditional.nodes
    /\ head = NewConditional.head
    /\ curr = NewConditional.curr
    /\ attached = FALSE
    /\ last = Call("NewConditional", NilCond, NoCtx, FALSE)
    /\ ret = NotRun

\* The builder calls.  Each leaves the Conditional as its method leaves it,
\* records the condition it attached and forgets the last evaluation.

CallOr ==
    LET c == Or(Self) IN
    /\ Len(c.nodes) <= MaxNodes
    /\ nodes' = c.nodes
    /\ head' = c.head
    /\ curr' = c.curr
    /\ attached' = attached
    /\ last' = Call("Or", NilCond, NoCtx, Len(c.nodes) > Len(nodes))
    /\ ret' = NotRun

CallAnd ==
    LET c == And(Self) IN
    /\ Len(c.nodes) <= MaxNodes
    /\ nodes' = c.nodes
    /\ head' = c.head
    /\ curr' = c.curr
    /\ attached' = attached
    /\ last' = Call("And", NilCond, NoCtx, Len(c.nodes) > Len(nodes))
    /\ ret' = NotRun

CallOnCondition ==
    \E cond \in Conds :
        LET c == OnCondition(Self, cond) IN
        /\ Len(c.nodes) <= MaxNodes
        /\ nodes' = c.nodes
        /\ head' = c.head
        /\ curr' = c.curr
        /\ attached' = TRUE
        /\ last' = Call("OnCondition", cond, NoCtx, Len(c.nodes) > Len(nodes))
        /\ ret' = NotRun

CallOnConditionNot ==
    \E cond \in NotConds :
        LET c == OnConditionNot(Self, cond) IN
        /\ Len(c.nodes) <= MaxNodes
        /\ nodes' = c.nodes
        /\ head' = c.head
        /\ curr' = c.curr
        /\ attached' = TRUE
        /\ last' = Call("OnConditionNot", NewNotCondition(cond), NoCtx, Len(c.nodes) > Len(nodes))
        /\ ret' = NotRun

CallOnProperty ==
    \E name \in Names :
        LET c == OnProperty(Self, name) IN
        /\ Len(c.nodes) <= MaxNodes
        /\ nodes' = c.nodes
        /\ head' = c.head
        /\ curr' = c.curr
        /\ attached' = TRUE
        /\ last' = Call("OnProperty", NewPropertyCondition(name), NoCtx, Len(c.nodes) > Len(nodes))
        /\ ret' = NotRun

CallOnMissingProperty ==
    \E name \in MissingNames :
        LET c == OnMissingProperty(Self, name) IN
        /\ Len(c.nodes) <= MaxNodes
        /\ nodes' = c.nodes
        /\ head' = c.head
        /\ curr' = c.curr
        /\ attached' = TRUE
        /\ last' = Call("OnMissingProperty", NewMissingPropertyCondition(name), NoCtx, Len(c.nodes) > Len(nodes))
        /\ ret' = NotRun

CallOnExpression ==
    LET c == OnExpression(Self) IN
    /\ Len(c.nodes) <= MaxNodes
    /\ nodes' = c.nodes
    /\ head' = c.head
    /\ curr' = c.curr
    /\ attached' = TRUE
    /\ last' = Call("OnExpression", NewExpressionCondition, NoCtx, Len(c.nodes) > Len(nodes))
    /\ ret' = NotRun

\* Matches walking the chain with the cursor, left on the last node entered.
CallMatchesWithCursor ==
    \E ctx \in Contexts :
        /\ ret' = Matches(Self, ctx)
        /\ last' = Call("Matches", NilCond, ctx, FALSE)
        /\ curr' = ret'.visited[Len(ret'.visited)]
        /\ UNCHANGED <<nodes, head, attached>>

CallMatches ==
    \E ctx \in Contexts :
        /\ ret' = Matches(Self, ctx)
        /\ last' = Call("Matches", NilCond, ctx, FALSE)
        /\ UNCHANGED <<nodes, head, curr, attached>>

Next ==
    \/ CallOr
    \/ CallAnd
    \/ CallOnCondition
    \/ CallOnConditionNot
    \/ CallOnProperty
    \/ CallOnMissingProperty
    \/ CallOnExpression
    \/ CallMatches

Spec == Init /\ [][Next]_vars

----------------------------------------------------------------------------
\* The second state machine: an optionArg, whose Conditional is built by
\* its ConditionOn* methods and evaluated by call on the context of the
\* bean assembly.

\* Largest number of conditionNode objects the optionArg's Conditional
\* allocates.
MaxArgNodes == 1

Threads == <<"threads">>

Selectors == {"cache", "legacyCache"}

\* The profiles handed to the builder, and those a context reports.
Profiles == {"", "prod"}

ActiveProfiles == {"", "prod", "PROD"}

\* The values a context holds for "threads"; NilValue stands for a context
\* without the property.
ThreadsValues ==
    {NilValue, IntValue(8), IntValue(2), StringValue(<<"8">>), BoolValue(TRUE),
     SliceValue(1)}

\* The expected values handed to ConditionOnPropertyValue.
HavingValues ==
    {IntValue(8), IntValue(9), SliceValue(1), StringValue(<<"8">>),
     StringValue(<<"$", ">=", "4">>), StringValue(<<"$", "==", "$">>),
     StringValue(<<"$", ">=">>)}

ArgContext(props, threads, beans, profile) ==
    LET keys == props \cup (IF threads = NilValue THEN {} ELSE {Threads}) IN
    [props |-> keys,
     value |-> [k \in keys |-> IF k = Threads THEN threads ELSE SetValue],
     beans |-> beans, profile |-> profile]

\* The contexts an optionArg is called on: each varies the properties
\* under "a" and "b", or the value of "threads", or the beans and the
\* profile.
ArgContexts ==
    {ArgContext(props, NilValue, {}, "") : props \in SUBSET Keys}
        \cup {ArgContext({}, threads, {}, "") : threads \in ThreadsValues}
        \cup {ArgContext({}, NilValue, beans, profile) :
                beans \in SUBSET {"cache"}, profile \in ActiveProfiles}

\* The operators and member lists of the groups handed to ConditionOn.
GroupOps == {ZeroOp, ConditionOr, ConditionAnd, ConditionNone, 4}

GroupMembers ==
    {<<>>,
     <<NewPropertyCondition(PropA), NewPropertyCondition(PropB)>>,
     <<NewPropertyCondition(PropB), NewExpressionCondition>>}

ArgConds ==
    {NewConditions(op, cond) : op \in GroupOps, cond \in GroupMembers}
        \cup {NewProfileCondition(profile) : profile \in Profiles}

ArgConditionOn ==
    \E cond \in ArgConds :
        LET c == ConditionOn(Self, cond) IN
        /\ Len(c.nodes) <= MaxArgNodes
        /\ nodes' = c.nodes
        /\ head' = c.head
        /\ curr' = c.curr
        /\ attached' = TRUE
        /\ last' = Call("ConditionOn", cond, NoCtx, Len(c.nodes) > Len(nodes))
        /\ ret' = NotRun

ArgConditionOnProperty ==
    \E name \in Names :
        LET c == ConditionOnProperty(Self, name) IN
        /\ Len(c.nodes) <= MaxArgNodes
        /\ nodes' = c.nodes
        /\ head' = c.head
        /\ curr' = c.curr
        /\ attached' = TRUE
        /\ last' = Call("ConditionOnProperty", NewPropertyCondition(name), NoCtx, Len(c.nodes) > Len(nodes))
        /\ ret' = NotRun

ArgConditionOnMissingProperty ==
    \E name \in MissingNames :
        LET c == ConditionOnMissingProperty(Self, name) IN
        /\ Len(c.nodes) <= MaxArgNodes
        /\ nodes' = c.nodes
        /\ head' = c.head
        /\ curr' = c.curr
        /\ attached' = TRUE
        /\ last' = Call("ConditionOnMissingProperty", NewMissingPropertyCondition(name), NoCtx, Len(c.nodes) > Len(nodes))
        /\ ret' = NotRun

ArgConditionOnPropertyValue ==
    \E havingValue \in HavingValues :
        LET c == ConditionOnPropertyValue(Self, Threads, havingValue) IN
        /\ Len(c.nodes) <= MaxArgNodes
        /\ nodes' = c.nodes
        /\ head' = c.head
        /\ curr' = c.curr
        /\ attached' = TRUE
        /\ last' = Call("ConditionOnPropertyValue", NewPropertyValueCondition(Threads, havingValue), NoCtx, Len(c.nodes) > Len(nodes))
        /\ ret' = NotRun

ArgConditionOnBean ==
    \E selector \in Selectors :
        LET c == ConditionOnBean(Self, selector) IN
        /\ Len(c.nodes) <= MaxArgNodes
        /\ nodes' = c.nodes
        /\ head' = c.head
        /\ curr' = c.curr
        /\ attached' = TRUE
        /\ last' = [Call("ConditionOnBean", NewBeanCondition(selector), NoCtx, Len(c.nodes) > Len(nodes)) EXCEPT !.arg = selector]
        /\ ret' = NotRun

ArgConditionOnMissingBean ==
    \E selector \in Selectors :
        LET c == ConditionOnMissingBean(Self, selector) IN
        /\ Len(c.nodes) <= MaxArgNodes
        /\ nodes' = c.nodes
        /\ head' = c.head
        /\ curr' = c.curr
        /\ attached' = TRUE
        /\ last' = [Call("ConditionOnMissingBean", NewMissingBeanCondition(selector), NoCtx, Len(c.nodes) > Len(nodes)) EXCEPT !.arg = selector]
        /\ ret' = NotRun

ArgConditionOnProfile ==
    \E profile \in Profiles :
        LET c == ConditionOnProfile(Self, profile) IN
        /\ Len(c.nodes) <= MaxArgNodes
        /\ nodes' = c.nodes
        /\ head' = c.head
        /\ curr' = c.curr
        /\ attached' = TRUE
        /\ last' = [Call("ConditionOnProfile", nodes'[curr'].cond, NoCtx, Len(c.nodes) > Len(nodes)) EXCEPT !.arg = profile]
        /\ ret' = NotRun

\* optionArg.call: the evaluation of arg.cond on the assembly's context.
ArgCall ==
    \E ctx \in ArgContexts :
        /\ ret' = Matches(Self, ctx)
        /\ last' = Call("Matches", NilCond, ctx, FALSE)
        /\ UNCHANGED <<nodes, head, curr, attached>>

NextArg ==
    \/ ArgConditionOn
    \/ ArgConditionOnProperty
    \/ ArgConditionOnMissingProperty
    \/ ArgConditionOnPropertyValue
    \/ ArgConditionOnBean
    \/ ArgConditionOnMissingBean
    \/ ArgConditionOnProfile
    \/ ArgCall

SpecArg == Init /\ [][NextArg]_vars

----------------------------------------------------------------------------
\* The third state machine: the builder handed conditions of its caller's
\* making, groups whose operator is any ConditionOp value included.

\* ConditionNone, valid in a group only, and the first value past the
\* enumeration.
OpValues == {ConditionNone, ConditionNone + 1}

OpConds ==
    {NewPropertyCondition(PropA)}
        \cup {NewConditions(op, <<NewPropertyCondition(PropB)>>) : op \in OpValues}

OpOnCondition ==
    \E cond \in OpConds :
        LET c == OnCondition(Self, cond) IN
        /\ Len(c.nodes) <= MaxNodes
        /\ nodes' = c.nodes
        /\ head' = c.head
        /\ curr' = c.curr
        /\ attached' = TRUE
        /\ last' = Call("OnCondition", cond, NoCtx, Len(c.nodes) > Len(nodes))
        /\ ret' = NotRun

NextOp ==
    \/ CallOr
    \/ CallAnd
    \/ OpOnCondition
    \/ CallMatches

SpecOp == Init /\ [][NextOp]_vars

----------------------------------------------------------------------------
\* Vocabulary of the properties.

\* The nodes of the chain in link order, starting at node i.
RECURSIVE ChainFrom(_, _)
ChainFrom(h, i) == IF i = NilPtr THEN <<>> ELSE <<i>> \o ChainFrom(h, h[i].next)

Chain == ChainFrom(nodes, head)

\* Every node of the chain holds a condition.
WellFormed == \A k \in 1..Len(Chain) : nodes[Chain[k]].cond # NilCond

\* The state right after an evaluation; ret is its outcome on last.ctx.
Evaluated == last.op = "Matches"

\* The outcome of the own condition of node i on the evaluated context.
CondOf(i) == CondMatches(nodes[i].cond, last.ctx)

IsTrue(i) == CondOf(i).err = NoErr /\ CondOf(i).val

IsFalse(i) == CondOf(i).err = NoErr /\ ~CondOf(i).val

\* The recursive rule: the value of the chain from position k on.
RECURSIVE Rule(_)
Rule(k) ==
    IF k = Len(Chain) THEN IsTrue(Chain[k])
    ELSE IF nodes[Chain[k]].op = ConditionOr
         THEN (IF IsTrue(Chain[k]) THEN TRUE ELSE Rule(k + 1))
         ELSE (IF IsFalse(Chain[k]) THEN FALSE ELSE Rule(k + 1))

\* The nodes whose condition was evaluated are an initial part of the chain,
\* in chain order, each once.
EvalsInChainOrder ==
    /\ Len(ret.evals) <= Len(Chain)
    /\ ret.evals = SubSeq(Chain, 1, Len(ret.evals))

----------------------------------------------------------------------------
\* C1: on a chain in which every node holds a condition, each evaluating to
\* a boolean, Matches returns the value of the recursive rule: the last
\* node's condition; with OR true when the condition is true, else the
\* remainder; with AND false when the condition is false, else the remainder.
C1_MatchesFollowsRule ==
    (Evaluated /\ WellFormed
        /\ \A k \in 1..Len(Chain) : CondOf(Chain[k]).err = NoErr)
    => (ret.err = NoErr /\ ret.val = Rule(1))

\* A three-node chain mixing OR and AND was evaluated to a boolean.
C1_Witness ==
    /\ Evaluated /\ WellFormed /\ Len(Chain) = 3
    /\ \A k \in 1..Len(Chain) : CondOf(Chain[k]).err = NoErr
    /\ nodes[Chain[1]].op = ConditionOr /\ nodes[Chain[2]].op = ConditionAnd
    /\ Len(ret.evals) = 3 /\ ret.val

\* C2: on a chain in which every node holds a condition, conditions are
\* evaluated in chain order, each at most once, and when an evaluated node
\* has operator AND and a false condition, Matches returns false and that
\* node is the last one whose condition is evaluated.
C2_AndShortCircuit ==
    (Evaluated /\ WellFormed)
    => /\ EvalsInChainOrder
       /\ \A k \in 1..Len(ret.evals) :
            (nodes[ret.evals[k]].op = ConditionAnd
                /\ nodes[ret.evals[k]].next # NilPtr
                /\ IsFalse(ret.evals[k]))
            => (ret.err = NoErr /\ ~ret.val /\ k = Len(ret.evals))

\* A false condition under AND at the head ended the evaluation there,
\* with one more node left unevaluated.
C2_Witness ==
    /\ Evaluated /\ WellFormed /\ Len(Chain) >= 2
    /\ nodes[head].op = ConditionAnd /\ IsFalse(head)
    /\ ret.evals = <<head>> /\ ret.err = NoErr /\ ~ret.val

\* The chain of PropertyPresent("a").or(PropertyPresent("b")).
IsAOrB ==
    /\ Len(Chain) = 2
    /\ nodes[Chain[1]].cond = NewPropertyCondition(PropA)
    /\ nodes[Chain[1]].op = ConditionOr
    /\ nodes[Chain[2]].cond = NewPropertyCondition(PropB)

\* C3: on a chain in which every node holds a condition, when an evaluated
\* node has operator OR and a true condition, Matches returns true and that
\* node is the last one whose condition is evaluated; for
\* PropertyPresent("a").or(PropertyPresent("b")) a context with only "a"
\* gives true without a query for "b", and one with neither gives false.
C3_OrShortCircuit ==
    (Evaluated /\ WellFormed)
    => /\ \A k \in 1..Len(ret.evals) :
            (nodes[ret.evals[k]].op = ConditionOr
                /\ nodes[ret.evals[k]].next # NilPtr
                /\ IsTrue(ret.evals[k]))
            => (ret.err = NoErr /\ ret.val /\ k = Len(ret.evals))
       /\ (IsAOrB /\ last.ctx.props = {<<"a", "x">>})
            => /\ ret.err = NoErr /\ ret.val
               /\ ret.trace = <<NewPropertyCondition(PropA)>>
               /\ ret.queries = << <<"GetPrefixProperties", PropA>> >>
       /\ (IsAOrB /\ last.ctx.props = {})
            => (ret.err = NoErr /\ ~ret.val)

\* PropertyPresent("a").or(PropertyPresent("b")) was evaluated on a context
\* that holds only a key under "a".
C3_Witness ==
    /\ Evaluated /\ IsAOrB /\ last.ctx.props = {<<"a", "x">>}
    /\ ret.evals = <<head>> /\ ret.val

\* C4: a Conditional on which no builder call has been made evaluates to
\* true on every context, without a panic, without evaluating a condition
\* and without a context query.
C4_FreshMatchesTrue ==
    (Evaluated /\ ~attached /\ Len(nodes) = 1)
    => /\ ret.err = NoErr /\ ret.val
       /\ ret.trace = <<>> /\ ret.evals = <<>> /\ ret.queries = <<>>

\* The fresh Conditional was evaluated on a context that holds properties.
C4_Witness ==
    /\ Evaluated /\ ~attached /\ Len(nodes) = 1
    /\ last.ctx.props = Keys /\ ret.visited = <<head>>

\* The chain has a node whose next node holds no condition.
HasDangling ==
    \E k \in 1..Len(Chain) :
        /\ nodes[Chain[k]].next # NilPtr
        /\ nodes[nodes[Chain[k]].next].cond = NilCond

\* C5: the chain built by OnCondition(A).And() or OnCondition(A).Or(), with
\* nothing attached after the operator, panics with "last op need a cond
\* triggered" on every context, and A is not evaluated.
C5_DanglingAfterOneCondition ==
    (Evaluated /\ Len(nodes) = 2 /\ nodes[head].cond # NilCond
        /\ nodes[nodes[head].next].cond = NilCond)
    => (ret.err = ErrLastOp /\ ret.trace = <<>>)

\* OnCondition(A).And() was evaluated, A being a condition that would match.
C5_Witness ==
    /\ Evaluated /\ Len(nodes) = 2 /\ nodes[head].op = ConditionAnd
    /\ nodes[head].cond # NilCond /\ nodes[nodes[head].next].cond = NilCond
    /\ IsTrue(head) /\ ret.err = ErrLastOp

\* C6: every evaluation of a chain that has a node whose next node holds no
\* condition panics with the dangling-operator error.
C6_DanglingAlwaysPanics ==
    (Evaluated /\ HasDangling) => ret.err = ErrLastOp

\* C7: Empty() is true iff no condition has ever been attached.
C7_EmptyIffNeverAttached == Empty(Self) <=> ~attached

\* C8: once Empty() is false it stays false over every further builder call
\* and evaluation.
C8_NeverEmptyAgain == [][~Empty(Self) => ~Empty(Self)']_vars

\* A non-empty Conditional went through further builder calls and an
\* evaluation.
C8_Witness == ~Empty(Self) /\ Len(nodes) >= 3 /\ attached /\ Evaluated

\* C9: OnCondition(B), called directly or through its On* sugar, on a cursor that holds a condition leaves the
\* Conditional as And() followed by OnCondition(B) does: one node more, the
\* old cursor linked with AND to the new cursor, B on the new cursor, and
\* the same result on every context; on a cursor that holds no condition it
\* allocates no node and sets B on the cursor.
C9_ImplicitAnd ==
    [][last'.cond # NilCond =>
        LET after == [nodes |-> nodes', head |-> head', curr |-> curr']
            explicit == OnCondition(And(Self), last'.cond)
        IN IF nodes[curr].cond # NilCond
           THEN /\ after = explicit
                /\ Len(nodes') = Len(nodes) + 1
                /\ nodes'[curr].op = ConditionAnd
                /\ nodes'[curr].next = curr'
                /\ nodes'[curr'].cond = last'.cond
                /\ \A ctx \in Contexts : Matches(after, ctx) = Matches(explicit, ctx)
           ELSE /\ nodes' = [nodes EXCEPT ![curr].cond = last'.cond]
                /\ curr' = curr /\ head' = head
    ]_vars

\* OnCondition was called on a cursor that held a condition and allocated
\* the node of the implicit link.
C9_Witness ==
    /\ last.op = "OnCondition" /\ last.grew
    /\ Len(nodes) = 2 /\ nodes[head].op = ConditionAnd
    /\ nodes[curr].cond = last.cond

\* C10: a panic raised during an evaluation reaches the caller: when the
\* Expression condition was evaluated (directly, under Not or in a group)
\* the call panics with the unimplemented error; when a group without
\* members was evaluated it panics with "no condition"; when a node holding
\* a condition was entered while its next node holds none it panics with
\* the dangling-operator error.
C10_PanicsPropagate ==
    Evaluated =>
        /\ \A k \in 1..Len(ret.trace) :
              /\ ret.trace[k].kind = "expressionCondition"
                    => ret.err = ErrUnimplemented
              /\ (ret.trace[k].kind = "conditions" /\ Len(ret.trace[k].cond) = 0)
                    => ret.err = ErrNoCondition
        /\ \A k \in 1..Len(ret.visited) :
              (nodes[ret.visited[k]].cond # NilCond
                  /\ nodes[ret.visited[k]].next # NilPtr
                  /\ nodes[nodes[ret.visited[k]].next].cond = NilCond)
              => ret.err = ErrLastOp

\* The Expression condition was evaluated under Not at the second node of
\* a chain.
C10_Witness ==
    /\ Evaluated /\ Len(ret.evals) = 2
    /\ nodes[ret.evals[2]].cond = NewNotCondition(NewExpressionCondition)
    /\ ret.trace[Len(ret.trace)] = NewExpressionCondition
    /\ ret.err = ErrUnimplemented

----------------------------------------------------------------------------
\* Vocabulary of the properties of single conditions.

HeadCond == nodes[head].cond

\* The evaluated Conditional holds one condition, of the given type; ret is
\* then the outcome of that condition on last.ctx.
Sole(kind) == Evaluated /\ Len(nodes) = 1 /\ HeadCond.kind = kind

\* The outcome of condition c on the evaluated context.
Yields(c) == CondMatches(c, last.ctx)

Matched(c) == Yields(c).err = NoErr /\ Yields(c).val

\* C11: a group with at least one member, all of whose members evaluate
\* without a panic, returns: with ConditionOr true iff some member matches,
\* with ConditionAnd true iff every member matches, with ConditionNone true
\* iff no member matches.
C11_GroupOperators ==
    (Sole("conditions") /\ Len(HeadCond.cond) > 0
        /\ HeadCond.op \in {ConditionOr, ConditionAnd, ConditionNone}
        /\ \A k \in 1..Len(HeadCond.cond) : Yields(HeadCond.cond[k]).err = NoErr)
    => /\ ret.err = NoErr
       /\ HeadCond.op = ConditionOr
            => (ret.val <=> \E k \in 1..Len(HeadCond.cond) : Matched(HeadCond.cond[k]))
       /\ HeadCond.op = ConditionAnd
            => (ret.val <=> \A k \in 1..Len(HeadCond.cond) : Matched(HeadCond.cond[k]))
       /\ HeadCond.op = ConditionNone
            => (ret.val <=> \A k \in 1..Len(HeadCond.cond) : ~Matched(HeadCond.cond[k]))

\* A ConditionNone group of two members, neither matching, returned true.
C11_Witness ==
    /\ Sole("conditions") /\ HeadCond.op = ConditionNone /\ Len(HeadCond.cond) = 2
    /\ ~Matched(HeadCond.cond[1]) /\ ~Matched(HeadCond.cond[2])
    /\ Yields(HeadCond.cond[2]).err = NoErr
    /\ ret.err = NoErr /\ ret.val

\* C12: a group without members panics with "no condition" whatever its
\* operator is, inside the enumeration or not.
C12_EmptyGroupPanics ==
    (Sole("conditions") /\ Len(HeadCond.cond) = 0) => ret.err = ErrNoCondition

\* An empty group whose operator is outside the enumeration was evaluated.
C12_Witness ==
    /\ Sole("conditions") /\ Len(HeadCond.cond) = 0
    /\ HeadCond.op \notin {ConditionOr, ConditionAnd, ConditionNone}
    /\ ret.err = ErrNoCondition

\* C13: PropertyValue(name, v) with v not a string returns false on a
\* context without the property and otherwise returns whether the value of
\* the property is v, of the same type and equal.
C13_LiteralPropertyValue ==
    (Sole("propertyValueCondition") /\ HeadCond.val.t # "string")
    => /\ ret.err = NoErr
       /\ ret.val <=> (HeadCond.name \in last.ctx.props
                          /\ last.ctx.value[HeadCond.name] = HeadCond.val)

\* The expression a template t stands for on a property value v.
Substituted(t, v) == ReplaceAll(t, Marker, CastToString(v))

\* C14: PropertyValue(name, t) with t a string containing "$", on a context
\* that holds the property: with every "$" replaced by the text of the
\* value, the result is whether the evaluator's output reads "true", and
\* the condition panics when the evaluator rejects the expression;
\* "threads" = 8 with "$>=4" gives true, = 2 gives false.
C14_TemplatePropertyValue ==
    (Sole("propertyValueCondition") /\ HeadCond.val.t = "string"
        /\ Contains(HeadCond.val.s, Marker) /\ HeadCond.name \in last.ctx.props)
    => LET v == last.ctx.value[HeadCond.name]
           e == Eval(Substituted(HeadCond.val.s, v))
       IN /\ e.ok => (ret.err = NoErr /\ (ret.val <=> e.text = <<"true">>))
          /\ ~e.ok => ret.err = ErrEval
          /\ (HeadCond.val.s = <<"$", ">=", "4">> /\ v = IntValue(8))
                => (ret.err = NoErr /\ ret.val)
          /\ (HeadCond.val.s = <<"$", ">=", "4">> /\ v = IntValue(2))
                => (ret.err = NoErr /\ ~ret.val)
          /\ (HeadCond.val.s = <<"$", "==", "$">> /\ v = IntValue(8))
                => (ret.err = NoErr /\ ret.val)

\* "$>=4" was evaluated on "threads" = 8.
C14_Witness ==
    /\ Sole("propertyValueCondition") /\ HeadCond.val = StringValue(<<"$", ">=", "4">>)
    /\ Threads \in last.ctx.props /\ last.ctx.value[Threads] = IntValue(8)
    /\ ret.val

\* C15: on every context PropertyPresent(n) and PropertyAbsent(n) return
\* opposite values, as do BeanPresent(s) and BeanAbsent(s), and
\* PropertyPresent(n) is true iff the context holds a key under prefix n.
C15_PresentAbsentComplement ==
    /\ Sole("propertyCondition")
        => /\ ret.err = NoErr
           /\ ret.val <=> ~Matched(NewMissingPropertyCondition(HeadCond.name))
           /\ ret.val <=> (\E k \in last.ctx.props : IsPrefix(HeadCond.name, k))
    /\ Sole("missingPropertyCondition")
        => /\ ret.err = NoErr
           /\ ret.val <=> ~Matched(NewPropertyCondition(HeadCond.name))
    /\ Sole("beanCondition")
        => /\ ret.err = NoErr
           /\ ret.val <=> ~Matched(NewMissingBeanCondition(HeadCond.str))
           /\ ret.val <=> HeadCond.str \in last.ctx.beans
    /\ Sole("missingBeanCondition")
        => /\ ret.err = NoErr
           /\ ret.val <=> ~Matched(NewBeanCondition(HeadCond.str))
           /\ ret.val <=> HeadCond.str \notin last.ctx.beans

\* BeanAbsent("cache") was evaluated on a context that finds "cache".
C15_Witness ==
    /\ Sole("missingBeanCondition") /\ HeadCond.str = "cache"
    /\ "cache" \in last.ctx.beans /\ ~ret.val

\* C16: Profile(p) returns true iff p is empty or p is the context's
\* profile, letter for letter.
C16_ProfileMatches ==
    Sole("profileCondition")
    => /\ ret.err = NoErr
       /\ ret.val <=> (HeadCond.str = "" \/ HeadCond.str = last.ctx.profile)

\* Profile("prod") was evaluated on the profile "PROD" and did not match.
C16_Witness ==
    /\ Sole("profileCondition") /\ HeadCond.str = "prod"
    /\ last.ctx.profile = "PROD" /\ ~ret.val

\* C17: optionArg.ConditionOnProfile(p) leaves the option's Conditional as
\* Conditional.OnProfile(p) does, so that evaluated alone it matches iff p
\* is empty or p is the context's profile.
C17_ConditionOnProfile ==
    [][last'.op = "ConditionOnProfile" =>
        LET after == [nodes |-> nodes', head |-> head', curr |-> curr'] IN
        /\ after = OnProfile(Self, last'.arg)
        /\ Len(nodes') = 1 =>
              \A ctx \in ArgContexts :
                  /\ Matches(after, ctx).err = NoErr
                  /\ Matches(after, ctx).val
                        <=> (last'.arg = "" \/ last'.arg = ctx.profile)
    ]_vars

----------------------------------------------------------------------------
\* C18: Matches leaves the head, the cursor and every node as they were,
\* and an evaluation that follows another one on the same context has the
\* same outcome, the same trace and the same queries.
C18_MatchesKeepsChain ==
    [][last'.op = "Matches" =>
        /\ nodes' = nodes /\ head' = head /\ curr' = curr
        /\ (Evaluated /\ last'.ctx = last.ctx) => ret' = ret
        /\ \A ctx \in Contexts :
              Matches([nodes |-> nodes', head |-> head', curr |-> curr'], ctx)
                  = Matches(Self, ctx)
    ]_vars

\* A chain of three conditions was evaluated down to its cursor.
C18_Witness ==
    /\ Evaluated /\ WellFormed /\ Len(Chain) = 3 /\ curr = Chain[3]
    /\ ret.visited = Chain /\ ret.err = NoErr /\ ~ret.val

\* Vocabulary of C19.

AllBoolean == \A k \in 1..Len(Chain) : CondOf(Chain[k]).err = NoErr

LastNode == Chain[Len(Chain)]

LastLink == Chain[Len(Chain) - 1]

\* The Conditional X of which the evaluated one is X.op().OnCondition(C):
\* the cursor of X is the node that carries op.
ChainSoFar ==
    [nodes |-> [nodes EXCEPT ![LastLink].op = ZeroOp, ![LastLink].next = NilPtr],
     head |-> head, curr |-> LastLink]

\* The chain that starts at the second node.
Remainder == [nodes |-> nodes, head |-> nodes[head].next, curr |-> curr]

Apply(op, x, y) == IF op = ConditionOr THEN x \/ y ELSE x /\ y

\* Every operator inside X is the operator that links X to C.
OneOperator ==
    \A k \in 1..(Len(Chain) - 1) : nodes[Chain[k]].op = nodes[LastLink].op

\* C19 as stated: the result of X.op().OnCondition(C) is
\* (result of X) op (result of C).
C19_BindsToChainSoFar ==
    (Evaluated /\ WellFormed /\ Len(Chain) >= 2 /\ AllBoolean)
    => /\ ret.err = NoErr
       /\ ret.val = Apply(nodes[LastLink].op,
                          Matches(ChainSoFar, last.ctx).val, IsTrue(LastNode))

\* C19 as amended: operators group to the right.  The result of a chain of
\* two or more boolean conditions is (first condition) op1 (result of the
\* chain from the second node on), so A.Or().OnCondition(B).And()
\* .OnCondition(C) is A or (B and C); the result of X.op().OnCondition(C) is
\* (result of X) op (result of C) when every operator inside X is op.
C19_GroupsToTheRight ==
    (Evaluated /\ WellFormed /\ Len(Chain) >= 2 /\ AllBoolean)
    => /\ ret.err = NoErr
       /\ ret.val = Apply(nodes[head].op, IsTrue(head),
                          Matches(Remainder, last.ctx).val)
       /\ OneOperator
            => ret.val = Apply(nodes[LastLink].op,
                               Matches(ChainSoFar, last.ctx).val, IsTrue(LastNode))
       /\ (Len(Chain) = 3 /\ nodes[Chain[1]].op = ConditionOr
              /\ nodes[Chain[2]].op = ConditionAnd)
            => ret.val = (IsTrue(Chain[1]) \/ (IsTrue(Chain[2]) /\ IsTrue(Chain[3])))

\* A.Or().OnCondition(B).And().OnCondition(C) was evaluated with A true
\* and C false, and returned true.
C19_Witness ==
    /\ Evaluated /\ WellFormed /\ Len(Chain) = 3 /\ AllBoolean
    /\ nodes[Chain[1]].op = ConditionOr /\ nodes[Chain[2]].op = ConditionAnd
    /\ IsTrue(Chain[1]) /\ IsFalse(Chain[3])
    /\ ret.err = NoErr /\ ret.val

\* C20: once a condition has been attached, Matches does not return true
\* without having evaluated a condition.
C20_NoVacuousTrueOnceAttached ==
    (Evaluated /\ attached /\ ret.err = NoErr /\ ret.val) => Len(ret.evals) > 0

----------------------------------------------------------------------------
\* C21: after a builder call that attached a condition (the cursor holds a
\* condition), an evaluation does not panic with the dangling-operator
\* error, whatever operator calls came before it, OnCondition(A).And()
\* .And().OnCondition(B) included.
C21_NoDanglingOnceAttached ==
    (Evaluated /\ nodes[curr].cond # NilCond) => ret.err # ErrLastOp

\* Vocabulary of C22.

\* The nodes entered by following next from node i, n links at most.
RECURSIVE Walk(_, _, _)
Walk(h, i, n) ==
    IF i = NilPtr \/ n = 0 THEN <<>> ELSE <<i>> \o Walk(h, h[i].next, n - 1)

\* The nodes reachable from the head; one more than there are nodes when
\* the links run into a cycle.
List(h, i) == Walk(h, i, Len(h) + 1)

\* Following next from node i ends on nil and enters no node twice.
IsList(h, i) ==
    /\ \A k \in 1..Len(h) : h[k].next \in 0..Len(h)
    /\ Len(List(h, i)) \in 1..Len(h)
    /\ \A a, b \in 1..Len(List(h, i)) : List(h, i)[a] = List(h, i)[b] => a = b

\* The shape of the Conditional between two calls.
ListShape ==
    /\ head = NewConditional.head
    /\ IsList(nodes, head)
    /\ curr = List(nodes, head)[Len(List(nodes, head))]
    /\ \A k \in 1..Len(List(nodes, head)) :
          nodes[List(nodes, head)[k]].next = NilPtr <=> List(nodes, head)[k] = curr

\* The step appends a link: Or(), And(), or a condition attached on a cursor
\* that holds one.
AppendsLink ==
    \/ last'.op \in {"Or", "And"}
    \/ last'.op # "Matches" /\ last'.cond # NilCond /\ nodes[curr].cond # NilCond

\* What a call does to the list: the head stays, the list grows by one node
\* per link appended, and no node but the cursor is written.
ListStep ==
    /\ head' = head
    /\ Len(List(nodes', head')) =
          Len(List(nodes, head)) + (IF AppendsLink THEN 1 ELSE 0)
    /\ Len(nodes') >= Len(nodes)
    /\ \A i \in 1..Len(nodes) : i # curr => nodes'[i] = nodes[i]

\* C22: the head is the node NewConditional created and is never
\* reassigned; the nodes reachable from it form a finite acyclic list whose
\* last node, the only one with a nil next, is the cursor; the list has one
\* node plus one per link appended by Or(), And() or an implicit And(); and
\* a call writes no node but the cursor, so the nodes before it keep their
\* condition, operator and next.
C22_ListStructure ==
    /\ Len(List(nodes, head)) = 1
    /\ []ListShape
    /\ [][ListStep]_vars

\* An explicit Or() and an implicit And() built a list of three nodes.
C22_Witness ==
    /\ last.op = "OnCondition" /\ last.grew /\ Len(nodes) = 3
    /\ List(nodes, head) = <<1, 2, 3>> /\ curr = 3
    /\ nodes[1].op = ConditionOr /\ nodes[2].op = ConditionAnd
    /\ nodes[1].cond # NilCond /\ nodes[2].cond # NilCond /\ nodes[3].cond # NilCond

\* Vocabulary of C23.

\* Every node with a next node carries OR or AND and the terminal node
\* carries the zero operator.
LinkOperators ==
    \A i \in 1..Len(nodes) :
        IF nodes[i].next # NilPtr
        THEN nodes[i].op \in {ConditionOr, ConditionAnd}
        ELSE nodes[i].op = ZeroOp

\* A group with members whose operator conditions.Matches does not know.
UnknownGroup(c) ==
    /\ c.kind = "conditions" /\ Len(c.cond) > 0
    /\ c.op \notin {ConditionOr, ConditionAnd, ConditionNone}

\* C23 as stated: every node with a next node carries OR or AND, the
\* terminal node carries the zero operator, and no evaluation of a chain
\* built through the builder panics with "error condition op mode".
C23_NeverUnknownOperator ==
    /\ LinkOperators
    /\ Evaluated => ret.err # ErrOpMode

\* C23 as amended: every node with a next node carries OR or AND and the
\* terminal node carries the zero operator, so the switch of a node never
\* panics with "error condition op mode"; an evaluation panics with it only
\* when it evaluated a group that has members and an operator other than
\* OR, AND and NONE.
C23_UnknownOperatorOnlyFromGroup ==
    /\ LinkOperators
    /\ (Evaluated /\ ret.err = ErrOpMode)
         => \E k \in 1..Len(ret.trace) : UnknownGroup(ret.trace[k])

\* A chain of three nodes linked with OR and AND was evaluated down to its
\* last node, whose group carries an unknown operator.
C23_Witness ==
    /\ Evaluated /\ Len(Chain) = 3 /\ ret.visited = Chain
    /\ nodes[Chain[1]].op = ConditionOr /\ nodes[Chain[2]].op = ConditionAnd
    /\ nodes[Chain[3]].op = ZeroOp /\ UnknownGroup(nodes[Chain[3]].cond)
    /\ ret.err = ErrOpMode

====
